---------------------------- MODULE Spec2Model ----------------------------
(***************************************************************************)
(* Realtime chat subsystem of the task-management backend: the relational  *)
(* store (channels, members, admins, messages, huddles), the socket        *)
(* gateway handlers and the REST chat endpoints.                           *)
(*                                                                         *)
(* Every handler is an async function.  A handler in flight is a task; one *)
(* step of a task is one awaited store call together with the synchronous  *)
(* code that follows it up to the next await, so handlers interleave at    *)
(* their awaits exactly as the single-threaded event loop lets them.       *)
(***************************************************************************)
EXTENDS Integers, Sequences, FiniteSets, Bags, TLC

VARIABLES
    channels,   \* chat_channels rows: [id, key, createdBy, isPrivate]
    members,    \* chat_channel_members rows: <<channel id, user id>>
    admins,     \* chat_channel_admins rows: <<channel id, user id>>
    messages,   \* chat_messages rows, message id = position
    huddles,    \* chat_huddles rows, in insertion order
    rooms,      \* socket.io rooms: <<user, channel key>> for channel:<key>
    clock,      \* the store's now()
    tasks,      \* handlers in flight: a bag of tasks
    last,       \* outcome of the handler step taken last
    emits       \* events emitted by the step taken last: <<recipient, event, key>>

vars == <<channels, members, admins, messages, huddles, rooms, clock, tasks, last, emits>>

-----------------------------------------------------------------------------
(* Bounds of the model *)

MaxInflight == 2     \* handlers in flight at once
MaxManaging == 1     \* handlers in flight at once where requests are taken one at a time
MaxPosting == 1      \* posting handlers in flight at once where edits and deletes race them
MaxHuddles == 2      \* rows of chat_huddles
MaxMessages == 2     \* rows of chat_messages
MaxClock == 4
\* the limit of the chat:history snapshot (100 in the gateway)
HistoryLimit == 2        \* the last value of now()

Users == {"A", "B", "C"}
Callers == {"A", "B"}
Keys == {"general", "secret"}
ChannelIds == {"c1", "c2"}
HuddleIds == {"h1", "h2"}
Texts == {"t1", "t2"}
NoUser == "none"
NoChannel == [id |-> "none", key |-> "none", createdBy |-> "none", isPrivate |-> FALSE]

\* what an HTTP request carries: the user its bearer token was signed for ("none":
\* no Authorization header, "bad": a token that fails verification) and its
\* x-user-id header
Anonymous == [token |-> "none", header |-> "none"]
\* the credentials field of a step in which no HTTP request arrives
NoCred == [token |-> "n/a", header |-> "n/a"]
Cred(token, header) == [token |-> token, header |-> header]

NoStep == [op |-> "none", user |-> NoUser, key |-> "none", arg |-> "none",
           status |-> "none", num |-> 0, cred |-> NoCred]

\* what a step of a REST handler did: the route, the acting user, the channel key
\* or id it named, its other argument, the outcome, the row it touched and the
\* credentials of the request
StepR(op, user, key, arg, status, num, cred) ==
    [op |-> op, user |-> user, key |-> key, arg |-> arg, status |-> status,
     num |-> num, cred |-> cred]

\* what a step of a socket handler did
Step(op, user, key, arg, status, num) == StepR(op, user, key, arg, status, num, NoCred)

\* a step that decided nothing yet: the handler is suspended at its next await
Awaiting(op) == Step(op, NoUser, "none", "none", "await", 0)

Task(op, pc, user, key, ch, arg, num) ==
    [op |-> op, pc |-> pc, user |-> user, key |-> key, ch |-> ch, arg |-> arg, num |-> num]

-----------------------------------------------------------------------------
(* socket.io delivery *)

\* io.to(`channel:${key}`): every socket in the room
InRoom(key) == {u \in Users : <<u, key>> \in rooms}

\* io.to(room).emit(ev): the broadcast itself, <<"room", ev, key>>, and one
\* delivery per socket in the room
EmitRoom(ev, key) == {<<"room", ev, key>>} \cup {<<u, ev, key>> : u \in InRoom(key)}

\* socket.to(room).emit(ev): the room without the sending socket
EmitOthers(sender, ev, key) ==
    {<<"room", ev, key>>} \cup {<<u, ev, key>> : u \in InRoom(key) \ {sender}}

\* socket.emit(ev): the sending socket only
EmitSelf(sender, ev, key) == {<<sender, ev, key>>}

-----------------------------------------------------------------------------
(* Huddle store: services/huddle.service.js *)

ActiveRows(key) ==
    {i \in 1..Len(huddles) : huddles[i].channelKey = key /\ huddles[i].endedAt = 0}

\* SELECT ... WHERE channel_key = $1 AND ended_at IS NULL
\* ORDER BY started_at DESC LIMIT 1; 0 stands for null
getActiveHuddle(key) ==
    IF ActiveRows(key) = {} THEN 0
    ELSE CHOOSE i \in ActiveRows(key) : \A j \in ActiveRows(key) : j <= i

\* chat_huddles without the index: every INSERT goes through
NoIndexOnActiveHuddle(key) == TRUE

\* the partial unique index on chat_huddles(channel_key) WHERE ended_at IS NULL
HuddleInsertAllowed(key) == ActiveRows(key) = {}

\* INSERT INTO chat_huddles (channel_key, huddle_id, started_by)
createHuddle(key, hid, user) ==
    Append(huddles, [channelKey |-> key, huddleId |-> hid, startedBy |-> user,
                     startedAt |-> clock, endedAt |-> 0])

\* the UPDATE of endHuddle with its huddle_id condition dropped
EndRowsAnyId(key, hid) == ActiveRows(key)

\* rows matched by UPDATE ... WHERE channel_key = $1 AND huddle_id = $2 AND ended_at IS NULL
EndRows(key, hid) == {i \in ActiveRows(key) : huddles[i].huddleId = hid}

\* UPDATE chat_huddles SET ended_at = NOW() ... RETURNING *
endHuddle(key, hid) ==
    [i \in 1..Len(huddles) |->
        IF i \in EndRows(key, hid) THEN [huddles[i] EXCEPT !.endedAt = clock]
        ELSE huddles[i]]


-----------------------------------------------------------------------------
(* Channel store and membership: services/chat.service.js *)

\* SELECT * FROM chat_channels WHERE key = $1 LIMIT 1; NoChannel stands for null
getChannelByKey(key) ==
    IF \E c \in channels : c.key = key
    THEN CHOOSE c \in channels : c.key = key
    ELSE NoChannel

\* SELECT * FROM chat_channels WHERE id = $1 LIMIT 1
getChannelById(id) ==
    IF \E c \in channels : c.id = id
    THEN CHOOSE c \in channels : c.id = id
    ELSE NoChannel

\* gen_random_uuid(): an id no row holds
FreshChannelId == CHOOSE id \in ChannelIds : \A c \in channels : c.id # id

\* chat_channels.key is unique: an INSERT of a key that a row holds is refused
KeyInsertAllowed(key) == \A c \in channels : c.key # key

\* the row written by getOrCreateChannelByKey's INSERT: is_private is the literal false
LazyChannelRow(key, user) ==
    [id |-> FreshChannelId, key |-> key, createdBy |-> user, isPrivate |-> FALSE]

\* the row written by createChannel's INSERT
ExplicitChannelRow(key, user, isPrivate) ==
    [id |-> FreshChannelId, key |-> key, createdBy |-> user, isPrivate |-> isPrivate]

\* the foreign key of member, admin and message rows to their channel
RefInsertAllowed(chId) == \E c \in channels : c.id = chId

\* a membership lookup that finds a row for everyone
isChannelMemberAlways(chId, user) == TRUE

\* SELECT 1 FROM chat_channel_members WHERE channel_id = $1 AND user_id = $2
isChannelMember(chId, user) == <<chId, user>> \in members

\* SELECT 1 FROM chat_channel_admins WHERE channel_id = $1 AND user_id = $2
isChannelAdmin(chId, user) == <<chId, user>> \in admins

\* (channel_id, user_id) is unique in chat_channel_members: a plain INSERT of a
\* pair that a row holds is refused
MemberInsertAllowed(chId, user) == <<chId, user>> \notin members

\* INSERT ... ON CONFLICT DO NOTHING
addChannelMember(chId, user) == members \cup {<<chId, user>>}

\* DELETE FROM chat_channel_members WHERE channel_id = $1 AND user_id = $2
removeChannelMember(chId, user) == members \ {<<chId, user>>}

\* INSERT INTO chat_channel_admins ... ON CONFLICT DO NOTHING
addChannelAdmin(chId, user) == admins \cup {<<chId, user>>}

\* DELETE FROM chat_channel_admins WHERE channel_id = $1 AND user_id = $2
removeChannelAdmin(chId, user) == admins \ {<<chId, user>>}

-----------------------------------------------------------------------------
(* Message store: services/chat.service.js *)

\* an insert that stores nothing
createChatMessageLost(chId, user, text) == messages

\* INSERT INTO chat_messages (...) VALUES (..., now(), ...) RETURNING *
createChatMessage(chId, user, text) ==
    Append(messages, [channelId |-> chId, userId |-> user, text |-> text,
                      createdAt |-> clock, updatedAt |-> 0, deletedAt |-> 0])

\* the slot of a message row removed with its channel: ids are never reused
NoMessage == [channelId |-> "none", userId |-> NoUser, text |-> "none",
              createdAt |-> 0, updatedAt |-> 0, deletedAt |-> 0]

\* ON DELETE CASCADE from chat_channels to the rows the channel owns
CascadeMembers(chId) == {r \in members : r[1] # chId}
CascadeAdmins(chId) == {r \in admins : r[1] # chId}
CascadeMessages(chId) ==
    [i \in 1..Len(messages) |->
        IF messages[i].channelId = chId THEN NoMessage ELSE messages[i]]

\* the WHERE clause with its user_id condition dropped
EditableByAnyone(mid, user) ==
    mid \in 1..Len(messages) /\ messages[mid].deletedAt = 0

\* the WHERE clause with its deleted_at condition dropped
EditableWhenDeleted(mid, user) ==
    mid \in 1..Len(messages) /\ messages[mid].userId = user

\* WHERE id = $2 AND user_id = $3 AND deleted_at IS NULL
Editable(mid, user) ==
    /\ mid \in 1..Len(messages)
    /\ messages[mid].userId = user
    /\ messages[mid].deletedAt = 0

\* WHERE id = $1 AND user_id = $2 AND deleted_at IS NULL
Deletable(mid, user) ==
    /\ mid \in 1..Len(messages)
    /\ messages[mid].userId = user
    /\ messages[mid].deletedAt = 0

\* UPDATE chat_messages SET text_html = $1, updated_at = now() ... RETURNING *
updateChatMessage(mid, user, text) ==
    IF Editable(mid, user)
    THEN [messages EXCEPT ![mid].text = text, ![mid].updatedAt = clock]
    ELSE messages

\* UPDATE chat_messages SET deleted_at = now() ... RETURNING *
softDeleteChatMessage(mid, user) ==
    IF Deletable(mid, user)
    THEN [messages EXCEPT ![mid].deletedAt = clock]
    ELSE messages

\* the rows of a channel, and the ORDER BY m.created_at ASC of getRecentMessages
\* (now() advances with every insert, so no two rows share created_at)
RowsOf(msgs, chId) == {i \in 1..Len(msgs) : msgs[i].channelId = chId}

Before(msgs, i, j) == msgs[i].createdAt < msgs[j].createdAt

\* LIMIT: the rows with fewer than limit rows before them
FirstIds(msgs, ids, limit) ==
    {i \in ids : Cardinality({j \in ids : Before(msgs, j, i)}) < limit}

\* the rows numbered by their place in the order, cut at the limit
Ranked(msgs, ids, limit) ==
    LET first == FirstIds(msgs, ids, limit)
        at(k) == CHOOSE i \in first : Cardinality({j \in first : Before(msgs, j, i)}) = k - 1
    IN  [k \in 1..Cardinality(first) |->
            [id |-> at(k), userId |-> msgs[at(k)].userId, text |-> msgs[at(k)].text,
             createdAt |-> msgs[at(k)].createdAt, deletedAt |-> msgs[at(k)].deletedAt]]

\* a history that leaves deleted rows out
getRecentSkippingDeleted(msgs, chId, limit) ==
    Ranked(msgs, {i \in RowsOf(msgs, chId) : msgs[i].deletedAt = 0}, limit)

\* SELECT m.* FROM chat_messages m ... WHERE m.channel_id = $1
\* ORDER BY m.created_at ASC LIMIT $2, over the message table msgs
getRecentOf(msgs, chId, limit) == Ranked(msgs, RowsOf(msgs, chId), limit)

getRecentMessages(chId, limit) == getRecentOf(messages, chId, limit)

\* the same SELECT with JOIN chat_channels c ON c.id = m.channel_id WHERE c.key = $1
getRecentMessagesByChannelKey(key, limit) ==
    Ranked(messages,
           {i \in 1..Len(messages) :
               \E c \in channels : c.id = messages[i].channelId /\ c.key = key},
           limit)

-----------------------------------------------------------------------------
(* Tasks *)

Running == BagToSet(tasks)

\* a handler may start while fewer than MaxInflight are in flight
CanStart == BagCardinality(tasks) < MaxInflight

\* handlers in flight
Managing == BagCardinality(tasks)

\* posting handlers in flight
Posting == BagCardinality([t \in {r \in Running : r.op = "chat:message"} |-> tasks[t]])

Start(t) == tasks' = tasks (+) SetToBag({t})

Continue(t, pc, ch) ==
    tasks' = (tasks (-) SetToBag({t})) (+) SetToBag({[t EXCEPT !.pc = pc, !.ch = ch]})

Finish(t) == tasks' = tasks (-) SetToBag({t})

StoreUnchanged == UNCHANGED <<channels, members, admins, messages>>

-----------------------------------------------------------------------------
(* Gateway: huddle:start and huddle:end *)

\* the outcome of an async handler whose awaited call rejected outside any
\* try/catch: the promise the handler returned is rejected and nobody handles it
Escaped == "unhandledRejection"

\* the cause of a store call that rejected because the database was unreachable
StoreDown == "store"

\* socket.on("huddle:start"): validation and the getActiveHuddle await
HuddleStartBegin(u, key, hid) ==
    /\ CanStart
    /\ IF getActiveHuddle(key) # 0
       THEN /\ tasks' = tasks
            /\ last' = Step("huddle:start", u, key, hid, "noop", 0)
       ELSE /\ Start(Task("huddle:start", "create", u, key, NoChannel, hid, 0))
            /\ last' = Awaiting("huddle:start")
    /\ emits' = {}
    /\ UNCHANGED <<huddles, rooms, clock>>
    /\ StoreUnchanged

\* socket.on("huddle:start"): the createHuddle await and the broadcast after it
HuddleStartCreate(t) ==
    /\ t.op = "huddle:start" /\ t.pc = "create"
    /\ IF HuddleInsertAllowed(t.key)
       THEN /\ Len(huddles) < MaxHuddles
            /\ clock < MaxClock
            /\ huddles' = createHuddle(t.key, t.arg, t.user)
            /\ clock' = clock + 1
            /\ emits' = EmitRoom("huddle:started", t.key)
            /\ last' = Step("huddle:start", t.user, t.key, t.arg, "started", Len(huddles) + 1)
       ELSE \* the insert is refused; the rejection escapes the handler
            /\ UNCHANGED <<huddles, clock>>
            /\ emits' = {}
            /\ last' = Step("huddle:start", t.user, t.key, t.arg, Escaped, 0)
    /\ Finish(t)
    /\ UNCHANGED rooms
    /\ StoreUnchanged

\* socket.on("huddle:start"): getActiveHuddle or createHuddle rejects because the
\* store cannot be reached; the handler has no try/catch
HuddleStartFails(t) ==
    /\ t.op = "huddle:start"
    /\ Finish(t)
    /\ emits' = {}
    /\ last' = Step("huddle:start", t.user, t.key, StoreDown, Escaped, 0)
    /\ UNCHANGED <<huddles, rooms, clock>>
    /\ StoreUnchanged

\* socket.on("huddle:end"): endHuddle rejects because the store cannot be
\* reached; the handler has no try/catch and the emit after the await is not run
HuddleEndFails(u, key, hid) ==
    /\ emits' = {}
    /\ last' = Step("huddle:end", u, key, StoreDown, Escaped, 0)
    /\ UNCHANGED <<huddles, rooms, clock, tasks>>
    /\ StoreUnchanged

\* socket.on("huddle:end"): the endHuddle await and the broadcast after it
HuddleEnd(u, key, hid) ==
    /\ IF EndRows(key, hid) = {} THEN UNCHANGED clock
       ELSE clock < MaxClock /\ clock' = clock + 1
    /\ huddles' = endHuddle(key, hid)
    /\ emits' = EmitRoom("huddle:ended", key)
    /\ last' = Step("huddle:end", u, key, hid,
                    IF EndRows(key, hid) = {} THEN "null" ELSE "ended",
                    IF EndRows(key, hid) = {} THEN 0 ELSE CHOOSE i \in EndRows(key, hid) : TRUE)
    /\ UNCHANGED <<rooms, tasks>>
    /\ StoreUnchanged


-----------------------------------------------------------------------------
(* Authentication of REST requests *)

\* middleware/auth.middleware.js: the user of a verified bearer token, else 401
authMiddleware(cred) == IF cred.token \in Users THEN cred.token ELSE NoUser

\* routes/chatMessages.routes.js requireAuth: req.user when an earlier middleware
\* set it (none does: index.js mounts routers bare), else the x-user-id header
requireAuth(cred) == IF cred.header \in Users THEN cred.header ELSE NoUser

-----------------------------------------------------------------------------
(* The private-channel checks of the three posting and joining paths *)

\* a check that lets only the creator into a private channel
JoinAllowedCreatorOnly(ch, user) == ~ch.isPrivate \/ ch.createdBy = user

\* chat:join (the revision with the private-channel check)
JoinAllowed(ch, user) == ~ch.isPrivate \/ isChannelMember(ch.id, user)

\* chat:message
MessageAllowed(ch, user) == ~ch.isPrivate \/ isChannelMember(ch.id, user)

\* POST /chat
PostAllowed(ch, user) ==
    ~ch.isPrivate \/ isChannelMember(ch.id, user) \/ ch.createdBy = user

SocketOps == {"chat:join", "chat:join*", "chat:message"}

ManageOps == {"POST /chat/channels/:id/members", "DELETE /chat/channels/:id/members/:userId",
              "POST /chat/channels/:id/admins", "DELETE /chat/channels/:id/admins/:userId"}

RestOps == ManageOps \cup {"POST /chat", "POST /chat/channels", "POST /chat/channels/:id/leave",
                           "POST /chat/:channelKey/members", "DELETE /chat/channels/:id"}

\* the await that follows the resolution of the channel
PcAfterResolve(op, ch) ==
    CASE op = "chat:join*" -> "history"
      [] op = "bot" -> "create_msg"
      [] op = "POST /chat/:channelKey/members" -> "add_member"
      [] OTHER -> IF ch.isPrivate THEN "is_member" ELSE "ensure_sel"

\* chat:join of the revision without the check joins the room as soon as the
\* channel is resolved
RoomsAfterResolve(t) ==
    IF t.op = "chat:join*" THEN rooms \cup {<<t.user, t.key>>} ELSE rooms

\* the await that follows ensureChannelMember
PcAfterEnsure(op) == IF op = "chat:join" THEN "history" ELSE "create_msg"

\* a join that reads the history without having entered the room
RoomsNotYetJoined(t) == rooms

RoomsAfterEnsure(t) ==
    IF t.op = "chat:join" THEN rooms \cup {<<t.user, t.key>>} ELSE rooms

\* a store error inside a handler: socket handlers log it, REST handlers answer 500
Failed(op) == IF op \in SocketOps \cup {"bot"} THEN "error" ELSE "500"

StepOf(t, status, num) == Step(t.op, t.user, t.key, t.arg, status, num)

\* a store call that threw on a unique constraint: the handler's catch
Thrown(t, constraint) == Step(t.op, t.user, t.key, constraint, Failed(t.op), 0)

\* an INSERT for a channel deleted meanwhile throws on the foreign key
Orphaned(t) ==
    /\ Finish(t)
    /\ emits' = {}
    /\ last' = Thrown(t, "channel_id")
    /\ UNCHANGED <<channels, members, admins, messages, huddles, rooms, clock>>

-----------------------------------------------------------------------------
(* Gateway: chat:join, chat:message; REST: POST /chat *)

\* socket.on("chat:join"), with the private-channel check: up to the SELECT of
\* getOrCreateChannelByKey
ChatJoin(u, key) ==
    /\ CanStart
    /\ LET ch == getChannelByKey(key)
           t == Task("chat:join", "goc_insert", u, key, NoChannel, "none", 0)
       IN  IF ch = NoChannel THEN Start(t)
           ELSE Start([t EXCEPT !.pc = PcAfterResolve(t.op, ch), !.ch = ch])
    /\ last' = Awaiting("chat:join")
    /\ emits' = {}
    /\ UNCHANGED <<channels, members, admins, messages, huddles, rooms, clock>>

\* socket.on("chat:join"), the revision without the check: up to the SELECT of
\* getOrCreateChannelByKey, and socket.join(room) when the channel exists
ChatJoinUnchecked(u, key) ==
    /\ CanStart
    /\ LET ch == getChannelByKey(key)
           t == Task("chat:join*", "goc_insert", u, key, NoChannel, "none", 0)
       IN  IF ch = NoChannel
           THEN Start(t) /\ UNCHANGED rooms
           ELSE Start([t EXCEPT !.pc = PcAfterResolve(t.op, ch), !.ch = ch])
                /\ rooms' = RoomsAfterResolve(t)
    /\ last' = Awaiting("chat:join*")
    /\ emits' = {}
    /\ UNCHANGED <<channels, members, admins, messages, huddles, clock>>

\* the tempId field of a chat:message event: absent, the empty string, or an id
\* made up by the client; null in an outgoing payload
TempIdAbsent == 0
TempIdEmpty == 1
TempIdOfClient == 2
TempIds == {TempIdAbsent, TempIdEmpty, TempIdOfClient}
Null == -1

\* a payload that repeats whatever field the event had
EchoAsSent(tempId) == IF tempId = TempIdAbsent THEN Null ELSE tempId

\* tempId || null
OrNull(tempId) == IF tempId \in {TempIdAbsent, TempIdEmpty} THEN Null ELSE tempId

\* socket.on("chat:message"): up to the SELECT of getOrCreateChannelByKey
ChatMessageTemp(u, key, text, tempId) ==
    /\ CanStart
    /\ LET ch == getChannelByKey(key)
           t == Task("chat:message", "goc_insert", u, key, NoChannel, text, tempId)
       IN  IF ch = NoChannel THEN Start(t)
           ELSE Start([t EXCEPT !.pc = PcAfterResolve(t.op, ch), !.ch = ch])
    /\ last' = Awaiting("chat:message")
    /\ emits' = {}
    /\ UNCHANGED <<channels, members, admins, messages, huddles, rooms, clock>>

\* a chat:message event without a tempId
ChatMessage(u, key, text) == ChatMessageTemp(u, key, text, TempIdAbsent)

\* router.post("/") of chatMessages.routes.js: requireAuth, the body check and
\* the getChannelByKey await
PostMessage(cred, channelId, text) ==
    /\ CanStart
    /\ LET u == requireAuth(cred)
           ch == getChannelByKey(channelId)
           t == Task("POST /chat", "by_id", u, channelId, NoChannel, text, 0)
       IN  IF u = NoUser
           THEN /\ tasks' = tasks
                /\ last' = StepR("POST /chat", u, channelId, text, "401", 0, cred)
           ELSE /\ IF ch = NoChannel THEN Start(t)
                   ELSE Start([t EXCEPT !.pc = PcAfterResolve(t.op, ch), !.ch = ch])
                /\ last' = StepR("POST /chat", u, channelId, text, "await", 0, cred)
    /\ emits' = {}
    /\ UNCHANGED <<channels, members, admins, messages, huddles, rooms, clock>>

\* POST /chat: the getChannelById await
PostById(t) ==
    /\ t.pc = "by_id"
    /\ LET ch == getChannelById(t.key)
       IN  /\ IF ch = NoChannel THEN Continue(t, "goc_sel", NoChannel)
              ELSE Continue(t, PcAfterResolve(t.op, ch), ch)
           /\ last' = Awaiting(t.op)
    /\ emits' = {}
    /\ UNCHANGED <<channels, members, admins, messages, huddles, rooms, clock>>

\* getOrCreateChannelByKey called after a lookup that found nothing: its SELECT
GocSelect(t) ==
    /\ t.pc = "goc_sel"
    /\ LET ch == getChannelByKey(t.key)
       IN  /\ IF ch = NoChannel THEN Continue(t, "goc_insert", NoChannel)
              ELSE Continue(t, PcAfterResolve(t.op, ch), ch)
           /\ last' = Awaiting(t.op)
    /\ emits' = {}
    /\ UNCHANGED <<channels, members, admins, messages, huddles, rooms, clock>>

\* getOrCreateChannelByKey: the INSERT that follows a SELECT that found no row
GocInsert(t) ==
    /\ t.pc = "goc_insert"
    /\ LET ch == LazyChannelRow(t.key, t.user)
       IN  IF KeyInsertAllowed(t.key)
           THEN /\ \E id \in ChannelIds : \A c \in channels : c.id # id
                /\ channels' = channels \cup {ch}
                /\ Continue(t, PcAfterResolve(t.op, ch), ch)
                /\ rooms' = RoomsAfterResolve(t)
                /\ last' = StepOf(t, "created", 0)
           ELSE /\ Finish(t)
                /\ UNCHANGED <<channels, rooms>>
                /\ last' = Thrown(t, "chat_channels.key")
    /\ emits' = {}
    /\ UNCHANGED <<members, admins, messages, huddles, clock>>

\* the isChannelMember await of a private channel, and the denial
MemberCheck(t) ==
    /\ t.pc = "is_member"
    /\ LET allowed == CASE t.op = "chat:join" -> JoinAllowed(t.ch, t.user)
                        [] t.op = "chat:message" -> MessageAllowed(t.ch, t.user)
                        [] OTHER -> PostAllowed(t.ch, t.user)
       IN  IF allowed
           THEN /\ Continue(t, "ensure_sel", t.ch)
                /\ emits' = {}
                /\ last' = Awaiting(t.op)
           ELSE /\ Finish(t)
                /\ emits' = CASE t.op = "chat:join" -> EmitSelf(t.user, "chat:join:denied", t.key)
                              [] t.op = "chat:message" -> EmitSelf(t.user, "chat:error", t.key)
                              [] OTHER -> {}
                /\ last' = StepOf(t, IF t.op = "POST /chat" THEN "403" ELSE "denied", 0)
    /\ UNCHANGED <<channels, members, admins, messages, huddles, rooms, clock>>

\* ensureChannelMember: the SELECT
EnsureSelect(t) ==
    /\ t.pc = "ensure_sel"
    /\ IF isChannelMember(t.ch.id, t.user)
       THEN /\ Continue(t, PcAfterEnsure(t.op), t.ch)
            /\ rooms' = RoomsAfterEnsure(t)
            /\ last' = Awaiting(t.op)
       ELSE /\ Continue(t, "ensure_ins", t.ch)
            /\ UNCHANGED rooms
            /\ last' = Awaiting(t.op)
    /\ emits' = {}
    /\ UNCHANGED <<channels, members, admins, messages, huddles, clock>>

\* ensureChannelMember: the INSERT that follows a SELECT that found no row
EnsureInsert(t) ==
    /\ t.pc = "ensure_ins"
    /\ IF ~RefInsertAllowed(t.ch.id) THEN Orphaned(t)
       ELSE /\ IF MemberInsertAllowed(t.ch.id, t.user)
               THEN /\ members' = members \cup {<<t.ch.id, t.user>>}
                    /\ Continue(t, PcAfterEnsure(t.op), t.ch)
                    /\ rooms' = RoomsAfterEnsure(t)
                    /\ last' = StepOf(t, "enrolled", 0)
               ELSE /\ Finish(t)
                    /\ UNCHANGED <<members, rooms>>
                    /\ last' = Thrown(t, "chat_channel_members")
            /\ emits' = {}
            /\ UNCHANGED <<channels, admins, messages, huddles, clock>>

\* createChatMessage and the chat:message broadcast to the channel's room
MessageInsert(t) ==
    /\ t.pc = "create_msg"
    /\ IF ~RefInsertAllowed(t.ch.id) THEN Orphaned(t)
       ELSE /\ Len(messages) < MaxMessages
            /\ clock < MaxClock
            /\ /\ messages' = createChatMessage(t.ch.id, t.user, t.arg)
               /\ emits' = EmitRoom("chat:message", IF t.op = "chat:message" THEN t.key ELSE t.ch.key)
               /\ last' = IF t.op = "chat:message"
                          THEN StepOf(t, "ok", Len(messages) + 1) @@ [tempId |-> OrNull(t.num)]
                          ELSE StepOf(t, IF t.op = "POST /chat" THEN "201" ELSE "ok",
                                      Len(messages) + 1)
            /\ clock' = clock + 1
            /\ Finish(t)
            /\ UNCHANGED <<channels, members, admins, huddles, rooms>>

\* chat:join: the getRecentMessages await and the chat:history snapshot
JoinHistory(t) ==
    /\ t.pc = "history"
    /\ /\ Continue(t, "huddle", t.ch)
       /\ emits' = EmitSelf(t.user, "chat:history", t.key)
       /\ last' = StepOf(t, "history", 0)
                  @@ [history |-> IF t.op = "chat:join*"
                                  THEN getRecentMessagesByChannelKey(t.key, HistoryLimit)
                                  ELSE getRecentMessages(t.ch.id, HistoryLimit)]
    /\ UNCHANGED <<channels, members, admins, messages, huddles, rooms, clock>>

\* chat:join: the getActiveHuddle await, the huddle snapshot and the join notice
JoinHuddle(t) ==
    /\ t.pc = "huddle"
    /\ /\ emits' = (IF getActiveHuddle(t.key) # 0
                    THEN EmitSelf(t.user, "huddle:started", t.key) ELSE {})
                   \cup EmitOthers(t.user, "chat:system", t.key)
       /\ last' = StepOf(t, "ok", 0)
    /\ Finish(t)
    /\ UNCHANGED <<channels, members, admins, messages, huddles, rooms, clock>>

\* a store call of a chat:join or chat:message handler rejects because the store
\* cannot be reached: the handler's catch logs it, except that chat:message turns
\* a rejected isChannelMember into "not a member" (.catch(() => false))
StoreFailure(t) ==
    /\ t.op \in SocketOps
    /\ Finish(t)
    /\ IF t.op = "chat:message" /\ t.pc = "is_member"
       THEN /\ emits' = EmitSelf(t.user, "chat:error", t.key)
            /\ last' = Step(t.op, t.user, t.key, StoreDown, "denied", 0)
       ELSE /\ emits' = {}
            /\ last' = Thrown(t, StoreDown)
    /\ UNCHANGED <<channels, members, admins, messages, huddles, rooms, clock>>

\* socket.on("chat:leave")
ChatLeave(u, key) ==
    /\ rooms' = rooms \ {<<u, key>>}
    /\ emits' = {<<"room", "chat:system", key>>}
                \cup {<<v, "chat:system", key>> : v \in {w \in Users : <<w, key>> \in rooms'}}
    /\ last' = Step("chat:leave", u, key, "none", "ok", 0)
    /\ UNCHANGED <<channels, members, admins, messages, huddles, clock, tasks>>

\* socket.on("chat:edit"): updateChatMessage, and the broadcast when a row came back
ChatEdit(u, key, mid, text) ==
    /\ IF Editable(mid, u)
       THEN /\ clock < MaxClock
            /\ clock' = clock + 1
            /\ emits' = EmitRoom("chat:messageEdited", key)
            /\ last' = Step("chat:edit", u, key, text, "ok", mid)
       ELSE /\ UNCHANGED clock
            /\ emits' = {}
            /\ last' = Step("chat:edit", u, key, text, "null", mid)
    /\ messages' = updateChatMessage(mid, u, text)
    /\ UNCHANGED <<channels, members, admins, huddles, rooms, tasks>>

\* socket.on("chat:delete"): softDeleteChatMessage, and the broadcast when a row came back
ChatDelete(u, key, mid) ==
    /\ IF Deletable(mid, u)
       THEN /\ clock < MaxClock
            /\ clock' = clock + 1
            /\ emits' = EmitRoom("chat:messageDeleted", key)
            /\ last' = Step("chat:delete", u, key, "none", "ok", mid)
       ELSE /\ UNCHANGED clock
            /\ emits' = {}
            /\ last' = Step("chat:delete", u, key, "none", "null", mid)
    /\ messages' = softDeleteChatMessage(mid, u)
    /\ UNCHANGED <<channels, members, admins, huddles, rooms, tasks>>

-----------------------------------------------------------------------------
(* The system bot: services/systemChatBot.service.js *)

AvailabilityKey == "availability-updates"

\* postSystemMessageToChannel for the user who triggered the mirrored event: up
\* to the SELECT of getOrCreateChannelByKey; createChatMessage and emitMessage
\* follow, with no membership call in between
BotPost(u, key, text) ==
    /\ CanStart
    /\ LET ch == getChannelByKey(key)
           t == Task("bot", "goc_insert", u, key, NoChannel, text, 0)
       IN  IF ch = NoChannel THEN Start(t)
           ELSE Start([t EXCEPT !.pc = PcAfterResolve(t.op, ch), !.ch = ch])
    /\ last' = Awaiting("bot")
    /\ emits' = {}
    /\ UNCHANGED <<channels, members, admins, messages, huddles, rooms, clock>>

-----------------------------------------------------------------------------
(* REST: routes/chatChannels.routes.js, every route behind authMiddleware *)

\* handleCreateChannel: authMiddleware, the name check and createChannel's INSERT
\* of the channel row
CreateChannel(cred, key, isPrivate, extra) ==
    /\ CanStart
    /\ LET u == authMiddleware(cred)
           ch == ExplicitChannelRow(key, u, isPrivate)
           op == "POST /chat/channels"
       IN  IF u = NoUser
           THEN /\ last' = StepR(op, u, key, extra, "401", 0, cred)
                /\ UNCHANGED <<channels, tasks>>
           ELSE IF KeyInsertAllowed(key)
           THEN /\ \E id \in ChannelIds : \A c \in channels : c.id # id
                /\ channels' = channels \cup {ch}
                /\ Start(Task(op, "seed_admin", u, key, ch, extra, 0))
                /\ last' = StepR(op, u, key, extra, "created", 0, cred)
           ELSE /\ last' = StepR(op, u, key, extra, "500", 0, cred)
                /\ UNCHANGED <<channels, tasks>>
    /\ emits' = {}
    /\ UNCHANGED <<members, admins, messages, huddles, rooms, clock>>

\* createChannel: the creator's admin row
SeedAdmin(t) ==
    /\ t.pc = "seed_admin"
    /\ IF ~RefInsertAllowed(t.ch.id) THEN Orphaned(t)
       ELSE /\ admins' = addChannelAdmin(t.ch.id, t.user)
            /\ Continue(t, "seed_member", t.ch)
            /\ last' = Awaiting(t.op)
            /\ emits' = {}
            /\ UNCHANGED <<channels, members, messages, huddles, rooms, clock>>

\* io.emit("chat:channel_created"): every connected socket
EmitAll(ev, key) == {<<"all", ev, key>>} \cup {<<u, ev, key>> : u \in Users}

\* createChannel: the creator's member row; without initial members the handler
\* emits chat:channel_created and answers 201
SeedMember(t) ==
    /\ t.pc = "seed_member"
    /\ IF ~RefInsertAllowed(t.ch.id) THEN Orphaned(t)
       ELSE /\ members' = addChannelMember(t.ch.id, t.user)
            /\ IF t.arg = NoUser
               THEN /\ Finish(t)
                    /\ emits' = EmitAll("chat:channel_created", t.key)
                    /\ last' = StepOf(t, "201", 0)
               ELSE /\ Continue(t, "add_extra", t.ch)
                    /\ emits' = {}
                    /\ last' = Awaiting(t.op)
            /\ UNCHANGED <<channels, admins, messages, huddles, rooms, clock>>

\* handleCreateChannel: addChannelMember for the initial member of the body
AddExtra(t) ==
    /\ t.pc = "add_extra"
    /\ IF ~RefInsertAllowed(t.ch.id) THEN Orphaned(t)
       ELSE /\ members' = addChannelMember(t.ch.id, t.arg)
            /\ Finish(t)
            /\ emits' = EmitAll("chat:channel_created", t.key)
            /\ last' = StepOf(t, "201", 0)
            /\ UNCHANGED <<channels, admins, messages, huddles, rooms, clock>>

\* the member and admin routes of /channels/:channelId: authMiddleware, the body
\* check and the getChannelById await
ManageBegin(op, cred, chId, target) ==
    /\ CanStart
    /\ LET u == authMiddleware(cred)
           ch == getChannelById(chId)
       IN  IF u = NoUser
           THEN /\ last' = StepR(op, u, chId, target, "401", 0, cred)
                /\ UNCHANGED tasks
           ELSE IF ch = NoChannel
           THEN /\ last' = StepR(op, u, chId, target, "404", 0, cred)
                /\ UNCHANGED tasks
           ELSE /\ Start(Task(op, "admin_check", u, chId, ch, target, 0))
                /\ last' = StepR(op, u, chId, target, "await", 0, cred)
    /\ emits' = {}
    /\ UNCHANGED <<channels, members, admins, messages, huddles, rooms, clock>>

\* the rule of the four routes: an admin of the channel or its creator
MayManage(ch, user) == isChannelAdmin(ch.id, user) \/ ch.createdBy = user

\* the isChannelAdmin await and the 403
AdminCheck(t) ==
    /\ t.pc = "admin_check"
    /\ IF MayManage(t.ch, t.user)
       THEN /\ Continue(t, "apply", t.ch)
            /\ last' = Awaiting(t.op)
       ELSE /\ Finish(t)
            /\ last' = StepOf(t, "403", 0)
    /\ emits' = {}
    /\ UNCHANGED <<channels, members, admins, messages, huddles, rooms, clock>>

\* the store call of the route, and its answer
ManageApply(t) ==
    /\ t.pc = "apply"
    /\ IF ~RefInsertAllowed(t.ch.id) /\ t.op \in {"POST /chat/channels/:id/members", "POST /chat/channels/:id/admins"} THEN Orphaned(t)
       ELSE /\ CASE t.op = "POST /chat/channels/:id/members" ->
                      /\ members' = addChannelMember(t.ch.id, t.arg)
                      /\ UNCHANGED admins
                      /\ Finish(t)
                      /\ emits' = {<<t.arg, "chat:added_to_channel", t.key>>}
                                  \cup EmitRoom("chat:member_added", t.ch.key)
                      /\ last' = StepOf(t, "200", 0)
                 [] t.op = "DELETE /chat/channels/:id/members/:userId" ->
                      /\ members' = removeChannelMember(t.ch.id, t.arg)
                      /\ UNCHANGED admins
                      /\ Continue(t, "drop_admin", t.ch)
                      /\ emits' = {}
                      /\ last' = StepOf(t, "removed", 0)
                 [] t.op = "POST /chat/channels/:id/admins" ->
                      /\ admins' = addChannelAdmin(t.ch.id, t.arg)
                      /\ UNCHANGED members
                      /\ Finish(t)
                      /\ emits' = {}
                      /\ last' = StepOf(t, "200", 0)
                 [] OTHER ->
                      /\ admins' = removeChannelAdmin(t.ch.id, t.arg)
                      /\ UNCHANGED members
                      /\ Finish(t)
                      /\ emits' = {}
                      /\ last' = StepOf(t, "200", 0)
            /\ UNCHANGED <<channels, messages, huddles, rooms, clock>>

\* DELETE /channels/:channelId/members/:userId: removeChannelAdmin after removeChannelMember
DropAdmin(t) ==
    /\ t.pc = "drop_admin"
    /\ admins' = removeChannelAdmin(t.ch.id, t.arg)
    /\ Finish(t)
    /\ emits' = {}
    /\ last' = StepOf(t, "200", 0)
    /\ UNCHANGED <<channels, members, messages, huddles, rooms, clock>>

\* POST /channels/:channelId/leave: authMiddleware and leaveChannel
LeaveChannel(cred, chId) ==
    /\ LET u == authMiddleware(cred)
           op == "POST /chat/channels/:id/leave"
       IN  IF u = NoUser
           THEN /\ last' = StepR(op, u, chId, "none", "401", 0, cred)
                /\ UNCHANGED members
           ELSE /\ members' = removeChannelMember(chId, u)
                /\ last' = StepR(op, u, chId, "none", "200", 0, cred)
    /\ emits' = {}
    /\ UNCHANGED <<channels, admins, messages, huddles, rooms, clock, tasks>>

\* POST /:channelKey/members: authMiddleware, the body check and the
\* getChannelByKey await
LegacyAddMember(cred, key, target) ==
    /\ CanStart
    /\ LET u == authMiddleware(cred)
           ch == getChannelByKey(key)
           op == "POST /chat/:channelKey/members"
           t == Task(op, "goc_sel", u, key, NoChannel, target, 0)
       IN  IF u = NoUser
           THEN /\ last' = StepR(op, u, key, target, "401", 0, cred)
                /\ UNCHANGED tasks
           ELSE /\ IF ch = NoChannel THEN Start(t)
                   ELSE Start([t EXCEPT !.pc = PcAfterResolve(op, ch), !.ch = ch])
                /\ last' = StepR(op, u, key, target, "await", 0, cred)
    /\ emits' = {}
    /\ UNCHANGED <<channels, members, admins, messages, huddles, rooms, clock>>

\* POST /:channelKey/members: addChannelMember and the answer
LegacyApply(t) ==
    /\ t.pc = "add_member"
    /\ IF ~RefInsertAllowed(t.ch.id) THEN Orphaned(t)
       ELSE /\ members' = addChannelMember(t.ch.id, t.arg)
            /\ Finish(t)
            /\ emits' = {}
            /\ last' = StepOf(t, "200", 0)
            /\ UNCHANGED <<channels, admins, messages, huddles, rooms, clock>>

\* the check of deleteChannel widened to the channel's creator
MayDeleteAsCreator(chId, user) ==
    isChannelAdmin(chId, user) \/ \E c \in channels : c.id = chId /\ c.createdBy = user

\* deleteChannel: if (!(await isChannelAdmin(channelId, userId))) throw
MayDelete(chId, user) == isChannelAdmin(chId, user)

\* DELETE /channels/:channelId: authMiddleware and the isChannelAdmin await of
\* deleteChannel; "Only admins can delete the channel" is answered 403
DeleteChannel(cred, chId) ==
    /\ CanStart
    /\ LET u == authMiddleware(cred)
           op == "DELETE /chat/channels/:id"
       IN  IF u = NoUser
           THEN /\ last' = StepR(op, u, chId, "none", "401", 0, cred)
                /\ UNCHANGED tasks
           ELSE IF MayDelete(chId, u)
           THEN /\ Start(Task(op, "delete", u, chId, NoChannel, "none", 0))
                /\ last' = StepR(op, u, chId, "none", "await", 0, cred)
           ELSE /\ last' = StepR(op, u, chId, "none", "403", 0, cred)
                /\ UNCHANGED tasks
    /\ emits' = {}
    /\ UNCHANGED <<channels, members, admins, messages, huddles, rooms, clock>>

\* deleteChannel: DELETE FROM chat_channels WHERE id = $1, and the rows the
\* channel owns with it
DeleteApply(t) ==
    /\ t.pc = "delete"
    /\ channels' = {c \in channels : c.id # t.key}
    /\ members' = CascadeMembers(t.key)
    /\ admins' = CascadeAdmins(t.key)
    /\ messages' = CascadeMessages(t.key)
    /\ huddles' = SelectSeq(huddles, LAMBDA h : \A c \in channels : c.id = t.key => h.channelKey # c.key)
    /\ Finish(t)
    /\ emits' = {}
    /\ last' = StepOf(t, "200", 0)
    /\ UNCHANGED <<rooms, clock>>

-----------------------------------------------------------------------------
(* REST: GET /chat/channels *)

\* the rows of a query result, one after the other (created_at, which orders
\* them, is not part of the channel rows kept here)
RECURSIVE RowsInOrder(_)
RowsInOrder(rows) ==
    IF rows = {} THEN <<>>
    ELSE LET r == CHOOSE x \in rows : TRUE IN <<r>> \o RowsInOrder(rows \ {r})

\* SELECT * FROM chat_channels WHERE is_private = false
PublicRows == RowsInOrder({c \in channels : ~c.isPrivate})

\* SELECT c.* FROM chat_channels c JOIN chat_channel_members m ON c.id = m.channel_id
\* WHERE m.user_id = $1
MemberRows(user) == RowsInOrder({c \in channels : <<c.id, user>> \in members})

\* a list that keeps every row it is given
MapAppend(acc, r) == Append(acc, r)

\* map.set(r.id, r): a new id goes to the end, a known id keeps its place
MapSet(acc, r) ==
    IF \E k \in 1..Len(acc) : acc[k].id = r.id
    THEN [k \in 1..Len(acc) |-> IF acc[k].id = r.id THEN r ELSE acc[k]]
    ELSE Append(acc, r)

RECURSIVE MapOfRows(_, _)
MapOfRows(acc, rows) ==
    IF rows = <<>> THEN acc ELSE MapOfRows(MapSet(acc, Head(rows)), Tail(rows))

\* getChannelsForUser: Array.from(map.values())
getChannelsForUser(user) == MapOfRows(<<>>, PublicRows \o MemberRows(user))

\* router.get("/channels")
GetChannels(cred) ==
    /\ LET u == authMiddleware(cred)
           op == "GET /chat/channels"
       IN  IF u = NoUser
           THEN last' = StepR(op, u, "none", "none", "401", 0, cred)
           ELSE last' = StepR(op, u, "none", "none", "200", Len(getChannelsForUser(u)), cred)
    /\ emits' = {}
    /\ UNCHANGED <<channels, members, admins, messages, huddles, rooms, clock, tasks>>

-----------------------------------------------------------------------------
(* REST: reading the messages of a channel *)

ForChannelRoute == "GET /chat/for-channel/:channelId"

MessagesRoute == "GET /chat/channels/:channelId/messages"

\* routes/chat.routes.js router.get("/channels/:channelId/messages"):
\* authMiddleware, then getRecentMessages with the id of the path
GetChannelMessages(cred, channelId) ==
    /\ LET u == authMiddleware(cred)
       IN  IF u = NoUser
           THEN last' = StepR(MessagesRoute, u, channelId, "none", "401", 0, cred)
           ELSE last' = StepR(MessagesRoute, u, channelId, "none", "200", 0, cred)
                        @@ [history |-> getRecentMessages(channelId, HistoryLimit)]
    /\ emits' = {}
    /\ UNCHANGED <<channels, members, admins, messages, huddles, rooms, clock, tasks>>

\* the check of GET /chat/for-channel on a private channel
ViewAllowed(ch, user) == isChannelMember(ch.id, user) \/ ch.createdBy = user

\* routes/chatMessages.routes.js router.get("/for-channel/:channelId"):
\* requireAuth and the lookup of the channel, by key and then by id
ForChannelBegin(cred, channelId) ==
    /\ CanStart
    /\ LET u == requireAuth(cred)
           byKey == getChannelByKey(channelId)
           ch == IF byKey # NoChannel THEN byKey ELSE getChannelById(channelId)
       IN  IF u = NoUser
           THEN /\ UNCHANGED tasks
                /\ last' = StepR(ForChannelRoute, u, channelId, "none", "401", 0, cred)
           ELSE IF ch = NoChannel
           THEN /\ UNCHANGED tasks
                /\ last' = StepR(ForChannelRoute, u, channelId, "none", "404", 0, cred)
           ELSE /\ Start(Task(ForChannelRoute, IF ch.isPrivate THEN "may_view" ELSE "read",
                              u, channelId, ch, "none", 0))
                /\ last' = StepR(ForChannelRoute, u, channelId, "none", "await", 0, cred)
    /\ emits' = {}
    /\ UNCHANGED <<channels, members, admins, messages, huddles, rooms, clock>>

\* GET /chat/for-channel: the isChannelMember await and the 403
ForChannelCheck(t) ==
    /\ t.op = ForChannelRoute /\ t.pc = "may_view"
    /\ IF ViewAllowed(t.ch, t.user)
       THEN /\ Continue(t, "read", t.ch)
            /\ last' = Awaiting(t.op)
       ELSE /\ Finish(t)
            /\ last' = StepOf(t, "403", 0)
    /\ emits' = {}
    /\ UNCHANGED <<channels, members, admins, messages, huddles, rooms, clock>>

\* GET /chat/for-channel: the getRecentMessages await and the answer
ForChannelRead(t) ==
    /\ t.op = ForChannelRoute /\ t.pc = "read"
    /\ Finish(t)
    /\ last' = StepOf(t, "200", 0) @@ [history |-> getRecentMessages(t.ch.id, HistoryLimit)]
    /\ emits' = {}
    /\ UNCHANGED <<channels, members, admins, messages, huddles, rooms, clock>>

-----------------------------------------------------------------------------
(* Gateway: handshake, connection, disconnect *)

\* a socket is named by what its handshake carries in auth.token: a token signed
\* for a user, nothing ("none"), or a token that fails verification ("bad")
HandshakeTokens == Callers \cup {"none", "bad"}

\* the payload read without verifying the signature
decodeUnverified(token) == token

\* jwt.verify(token, JWT_SECRET): the id of the payload, or a throw
verify(token) == IF token \in Users THEN token ELSE NoUser

\* the socket is in its personal room: io.on("connection") has run for it
Connected(s) == <<s, s>> \in rooms

\* io.use and io.on("connection"): a refused handshake never fires "connection";
\* an accepted one joins the personal room and broadcasts presence online
Connect(token) ==
    /\ ~Connected(token)
    /\ LET u == IF token = "none" THEN NoUser ELSE verify(token)
       IN  IF u = NoUser
           THEN /\ UNCHANGED rooms
                /\ emits' = {}
                /\ last' = Step("handshake", NoUser, "none", token,
                                IF token = "none" THEN "Unauthorized: no token"
                                ELSE "Unauthorized: invalid token", 0)
           ELSE /\ rooms' = rooms \cup {<<u, u>>}
                /\ emits' = EmitAll("presence:update", u)
                /\ last' = Step("connection", u, "none", token, "online", 0)
    /\ UNCHANGED <<channels, members, admins, messages, huddles, clock, tasks>>

\* socket.on("disconnect"), once the socket's handlers have returned: the
\* transport drops the socket from its rooms, presence offline is broadcast
Disconnect(s) ==
    /\ Connected(s)
    /\ \A t \in Running : t.user # s
    /\ rooms' = {r \in rooms : r[1] # s}
    /\ emits' = EmitAll("presence:update", s)
    /\ last' = Step("disconnect", s, "none", "none", "offline", 0)
    /\ UNCHANGED <<channels, members, admins, messages, huddles, clock, tasks>>

\* the socket.io name of a channel's room: `channel:${key}`
RoomName(key) == IF key = "general" THEN "channel:general" ELSE "channel:secret"

\* what a client may put in targetUserId: a user id, the name of a channel room,
\* or nothing
SignalTargets == Users \cup {RoomName(k) : k \in Keys} \cup {""}

\* io.to(name): the sockets in the room of that name, a personal room or a
\* channel room alike
InRoomNamed(name) ==
    {u \in Users : <<u, u>> \in rooms /\ u = name}
    \cup {u \in Users : \E k \in Keys : RoomName(k) = name /\ <<u, k>> \in rooms}

\* socket.on("huddle:signal"): no await, no store call
HuddleSignal(s, key, targetUserId) ==
    /\ IF targetUserId = ""
       THEN /\ emits' = {}
            /\ last' = Step("huddle:signal", s, key, targetUserId, "ignored", 0)
       ELSE /\ emits' = {<<"room", "huddle:signal", targetUserId>>}
                        \cup {<<u, "huddle:signal", targetUserId>> : u \in InRoomNamed(targetUserId)}
            /\ last' = Step("huddle:signal", s, key, targetUserId, "ok", 0)
    /\ UNCHANGED <<channels, members, admins, messages, huddles, rooms, clock, tasks>>

-----------------------------------------------------------------------------

Init ==
    /\ channels = {}
    /\ members = {}
    /\ admins = {}
    /\ messages = <<>>
    /\ huddles = <<>>
    /\ rooms = {}
    /\ clock = 1
    /\ tasks = EmptyBag
    /\ last = NoStep
    /\ emits = {}

\* the store once user A has created the private channel "secret"
ChatInit ==
    /\ channels = {[id |-> "c1", key |-> "secret", createdBy |-> "A", isPrivate |-> TRUE]}
    /\ members = {<<"c1", "A">>}
    /\ admins = {<<"c1", "A">>}
    /\ messages = <<>>
    /\ huddles = <<>>
    /\ rooms = {}
    /\ clock = 1
    /\ tasks = EmptyBag
    /\ last = NoStep
    /\ emits = {}

\* requests with a verified token, with no token, with a bad token, and with
\* nothing but an x-user-id header
BearerOf(u) == Cred(u, "none")
HeaderOf(u) == Cred("none", u)
RestCreds == {BearerOf(u) : u \in Callers} \cup {Anonymous, Cred("bad", "none")}
                \cup {HeaderOf(u) : u \in Callers}

\* huddles: starts from two sockets in flight together; endHuddle takes no user,
\* so one ending socket stands for all
HuddleNext ==
    \/ \E u \in Callers, key \in Keys, hid \in HuddleIds : HuddleStartBegin(u, key, hid)
    \/ \E t \in Running : HuddleStartCreate(t)
    \/ \E key \in Keys, hid \in HuddleIds : HuddleEnd("A", key, hid)

SpecHuddle == Init /\ [][HuddleNext]_vars

\* the private channel "secret": both revisions of chat:join, chat:message and
\* POST /chat by its creator and by an outsider, one handler at a time, while
\* members leave over REST
ChatNext ==
    \/ \E u \in Callers : Managing < MaxManaging /\ ChatJoin(u, "secret")
    \/ \E u \in Callers : Managing < MaxManaging /\ ChatJoinUnchecked(u, "secret")
    \/ \E u \in Callers : Managing < MaxManaging /\ ChatMessage(u, "secret", "t0")
    \/ \E cred \in RestCreds, channelId \in {"secret", "c1"} :
          Managing < MaxManaging /\ PostMessage(cred, channelId, "t0")
    \/ \E t \in Running : PostById(t)
    \/ \E t \in Running : MemberCheck(t)
    \/ \E t \in Running : EnsureSelect(t)
    \/ \E t \in Running : EnsureInsert(t)
    \/ \E t \in Running : MessageInsert(t)
    \/ \E t \in Running : JoinHistory(t)
    \/ \E t \in Running : JoinHuddle(t)
    \/ \E u \in Callers : LeaveChannel(BearerOf(u), "c1")
    \/ \E u, target \in Callers :
          Managing < MaxManaging
          /\ ManageBegin("POST /chat/channels/:id/members", BearerOf(u), "c1", target)
    \/ \E t \in Running : AdminCheck(t)
    \/ \E t \in Running : ManageApply(t)

SpecChat == ChatInit /\ [][ChatNext]_vars

\* the channel "general", created on first use: handlers of two sockets and of
\* POST /chat in flight together
LazyNext ==
    \/ \E u \in Callers : ChatJoin(u, "general")
    \/ \E u \in Callers : ChatMessage(u, "general", "t0")
    \/ \E u \in Callers : PostMessage(HeaderOf(u), "general", "t0")
    \/ BotPost("A", AvailabilityKey, "t0")
    \/ \E t \in Running : PostById(t)
    \/ \E t \in Running : GocSelect(t)
    \/ \E t \in Running : GocInsert(t)
    \/ \E t \in Running : EnsureSelect(t)
    \/ \E t \in Running : EnsureInsert(t)
    \/ \E t \in Running : MessageInsert(t)
    \/ \E t \in Running : JoinHistory(t)
    \/ \E t \in Running : JoinHuddle(t)

SpecLazy == Init /\ [][LazyNext]_vars

\* channel creation and the member and admin routes, from the empty store, one
\* request at a time
AdminNext ==
    \/ \E cred \in RestCreds, isPrivate \in BOOLEAN, extra \in {NoUser, "C"} :
          Managing < MaxManaging /\ CreateChannel(cred, "secret", isPrivate, extra)
    \/ \E t \in Running : SeedAdmin(t)
    \/ \E t \in Running : SeedMember(t)
    \/ \E t \in Running : AddExtra(t)
    \/ \E op \in ManageOps, cred \in RestCreds, target \in Users :
          Managing < MaxManaging /\ ManageBegin(op, cred, "c1", target)
    \/ \E t \in Running : AdminCheck(t)
    \/ \E t \in Running : ManageApply(t)
    \/ \E t \in Running : DropAdmin(t)
    \/ \E cred \in RestCreds : LeaveChannel(cred, "c1")
    \/ \E cred \in RestCreds, target \in Users :
          Managing < MaxManaging /\ LegacyAddMember(cred, "secret", target)
    \/ \E t \in Running : GocSelect(t)
    \/ \E t \in Running : GocInsert(t)
    \/ \E t \in Running : LegacyApply(t)

SpecAdmin == Init /\ [][AdminNext]_vars

\* connections: sockets with and without a valid token connect; the events of a
\* socket are handled once io.on("connection") has registered its handlers
ConnNext ==
    \/ \E token \in HandshakeTokens : Connect(token)
    \/ \E s \in HandshakeTokens : Disconnect(s)
    \/ \E s \in HandshakeTokens : Connected(s) /\ ChatJoin(s, "general")
    \/ \E t \in Running : GocInsert(t)
    \/ \E t \in Running : EnsureSelect(t)
    \/ \E t \in Running : EnsureInsert(t)
    \/ \E t \in Running : JoinHistory(t)
    \/ \E t \in Running : JoinHuddle(t)
    \/ \E s \in HandshakeTokens : Connected(s) /\ ChatLeave(s, "general")

SpecConn == Init /\ [][ConnNext]_vars

\* huddle:signal between connected sockets, some of them in the room of "general"
SignalNext ==
    \/ \E token \in Callers \cup {"C"} : Connect(token)
    \/ \E s \in Users : Disconnect(s)
    \/ \E s \in Callers : Connected(s) /\ ChatJoin(s, "general")
    \/ \E t \in Running : GocInsert(t)
    \/ \E t \in Running : EnsureSelect(t)
    \/ \E t \in Running : EnsureInsert(t)
    \/ \E t \in Running : JoinHistory(t)
    \/ \E t \in Running : JoinHuddle(t)
    \/ \E s \in Callers, target \in SignalTargets :
          Connected(s) /\ HuddleSignal(s, "general", target)

SpecSignal == Init /\ [][SignalNext]_vars

\* socket handlers whose store calls may reject: huddle:start and huddle:end on
\* any key, chat:message on the private channel "secret"
FaultNext ==
    \/ \E u \in Callers, hid \in HuddleIds : HuddleStartBegin(u, "secret", hid)
    \/ \E t \in Running : HuddleStartCreate(t)
    \/ \E t \in Running : HuddleStartFails(t)
    \/ \E hid \in HuddleIds : HuddleEnd("A", "secret", hid)
    \/ \E hid \in HuddleIds : HuddleEndFails("A", "secret", hid)
    \/ \E u \in Callers : ChatMessage(u, "secret", "t0")
    \/ \E t \in Running : MemberCheck(t)
    \/ \E t \in Running : EnsureSelect(t)
    \/ \E t \in Running : MessageInsert(t)
    \/ \E t \in Running : StoreFailure(t)

SpecFault == ChatInit /\ [][FaultNext]_vars

\* chat:join, in both revisions, on the channel "general" holding fewer messages
\* than the history limit, as many, or one more
HistoryInit ==
    /\ channels = {[id |-> "c1", key |-> "general", createdBy |-> "A", isPrivate |-> FALSE]}
    /\ members = {<<"c1", "A">>}
    /\ admins = {}
    /\ \E n \in 0..(HistoryLimit + 1) :
          /\ messages = [i \in 1..n |->
                           [channelId |-> "c1", userId |-> "A", text |-> "t0",
                            createdAt |-> i, updatedAt |-> 0, deletedAt |-> 0]]
          /\ clock = n + 1
    /\ huddles = <<>>
    /\ rooms = {}
    /\ tasks = EmptyBag
    /\ last = NoStep
    /\ emits = {}

HistoryNext ==
    \/ \E u \in Callers : ChatJoin(u, "general")
    \/ \E u \in Callers : ChatJoinUnchecked(u, "general")
    \/ \E u \in Callers : ChatLeave(u, "general")
    \/ \E t \in Running : EnsureSelect(t)
    \/ \E t \in Running : EnsureInsert(t)
    \/ \E t \in Running : JoinHistory(t)
    \/ \E t \in Running : JoinHuddle(t)

SpecHistory == HistoryInit /\ [][HistoryNext]_vars

\* the private channel "secret": chat:join with the check and chat:message, while
\* members leave, are removed and are added again; one handler at a time
EvictNext ==
    \/ \E u \in Callers : Managing < MaxManaging /\ ChatJoin(u, "secret")
    \/ \E u \in Callers : Managing < MaxManaging /\ ChatMessage(u, "secret", "t0")
    \/ \E t \in Running : MemberCheck(t)
    \/ \E t \in Running : EnsureSelect(t)
    \/ \E t \in Running : EnsureInsert(t)
    \/ \E t \in Running : MessageInsert(t)
    \/ \E t \in Running : JoinHistory(t)
    \/ \E t \in Running : JoinHuddle(t)
    \/ \E u \in Callers : LeaveChannel(BearerOf(u), "c1")
    \/ \E op \in {"POST /chat/channels/:id/members", "DELETE /chat/channels/:id/members/:userId"} :
          Managing < MaxManaging /\ ManageBegin(op, BearerOf("A"), "c1", "B")
    \/ \E t \in Running : AdminCheck(t)
    \/ \E t \in Running : ManageApply(t)
    \/ \E t \in Running : DropAdmin(t)

SpecEvict == ChatInit /\ [][EvictNext]_vars

\* chat:join on the channel "general", created on first use, by sockets of two
\* users, in both revisions of the handler
JoinNext ==
    \/ \E u \in Callers : ChatJoin(u, "general")
    \/ \E u \in Callers : ChatJoinUnchecked(u, "general")
    \/ \E t \in Running : GocInsert(t)
    \/ \E t \in Running : EnsureSelect(t)
    \/ \E t \in Running : EnsureInsert(t)
    \/ \E t \in Running : JoinHistory(t)
    \/ \E t \in Running : JoinHuddle(t)

SpecJoin == Init /\ [][JoinNext]_vars

\* deleting the channel "secret" while its admin set and member set change:
\* requests of two users in flight together
DeleteNext ==
    \/ \E cred \in {BearerOf("A"), BearerOf("B"), Anonymous} : DeleteChannel(cred, "c1")
    \/ \E t \in Running : DeleteApply(t)
    \/ \E op \in {"POST /chat/channels/:id/admins", "DELETE /chat/channels/:id/admins/:userId",
                   "POST /chat/channels/:id/members"}, u, target \in Callers :
          ManageBegin(op, BearerOf(u), "c1", target)
    \/ \E t \in Running : AdminCheck(t)
    \/ \E t \in Running : ManageApply(t)

SpecDelete == ChatInit /\ [][DeleteNext]_vars

\* GET /chat/channels over stores of up to two channels, public or private,
\* created by either user, with any member rows and admin rows
KeyOfId(id) == IF id = "c1" THEN "general" ELSE "secret"

ChannelRows(ids) ==
    {cs \in SUBSET [id : ids, key : Keys, createdBy : Callers, isPrivate : BOOLEAN] :
        /\ \A c \in cs : c.key = KeyOfId(c.id)
        /\ \A c, d \in cs : c.id = d.id => c = d}

ListInit ==
    /\ \E ids \in SUBSET ChannelIds :
          /\ channels \in ChannelRows(ids)
          /\ {c.id : c \in channels} = ids
          /\ members \in SUBSET (ids \X Users)
          /\ admins \in SUBSET (ids \X {"A"})
    /\ messages = <<>>
    /\ huddles = <<>>
    /\ rooms = {}
    /\ clock = 1
    /\ tasks = EmptyBag
    /\ last = NoStep
    /\ emits = {}

ListNext ==
    \/ \E cred \in {BearerOf(u) : u \in Users} \cup {Anonymous} : GetChannels(cred)
    \/ \E u \in Callers, chId \in ChannelIds : LeaveChannel(BearerOf(u), chId)

SpecList == ListInit /\ [][ListNext]_vars

\* chat:message events of A with and without a tempId on the channel "general",
\* while the sockets of A and B join its room and B's leaves it
PostNext ==
    \/ \E tempId \in TempIds :
          Posting < MaxPosting /\ ChatMessageTemp("A", "general", "t0", tempId)
    \/ \E u \in Callers : ChatJoin(u, "general")
    \/ ChatLeave("B", "general")
    \/ \E t \in Running : GocInsert(t)
    \/ \E t \in Running : EnsureSelect(t)
    \/ \E t \in Running : EnsureInsert(t)
    \/ \E t \in Running : MessageInsert(t)
    \/ \E t \in Running : JoinHistory(t)
    \/ \E t \in Running : JoinHuddle(t)

SpecPost == Init /\ [][PostNext]_vars

\* messages: posting into the public channel, editing and deleting
MsgNext ==
    \/ \E u \in Callers : Posting < MaxPosting /\ ChatMessage(u, "general", "t0")
    \/ \E t \in Running : GocInsert(t)
    \/ \E t \in Running : EnsureSelect(t)
    \/ \E t \in Running : EnsureInsert(t)
    \/ \E t \in Running : MessageInsert(t)
    \/ \E u \in Callers, mid \in 1..MaxMessages, text \in Texts :
          ChatEdit(u, "general", mid, text)
    \/ \E u \in Callers, mid \in 1..MaxMessages : ChatDelete(u, "general", mid)

SpecMsg == Init /\ [][MsgNext]_vars

\* messages of the channel "general", edited and deleted by events whose
\* channelId names "general" or another channel
RouteNext ==
    \/ Posting < MaxPosting /\ ChatMessage("A", "general", "t0")
    \/ \E t \in Running : GocInsert(t)
    \/ \E t \in Running : EnsureSelect(t)
    \/ \E t \in Running : EnsureInsert(t)
    \/ \E t \in Running : MessageInsert(t)
    \/ \E u \in Callers, key \in Keys, mid \in 1..MaxMessages, text \in Texts :
          ChatEdit(u, key, mid, text)
    \/ \E u \in Callers, key \in Keys, mid \in 1..MaxMessages : ChatDelete(u, key, mid)

SpecRoute == Init /\ [][RouteNext]_vars

\* chat:message handlers of A on "general" interleaved with chat:join handlers,
\* of both revisions, of A's and B's sockets; no socket leaves
LiveNext ==
    \/ Posting < MaxPosting /\ ChatMessage("A", "general", "t0")
    \/ \E u \in Callers : ChatJoin(u, "general")
    \/ ChatJoinUnchecked("B", "general")
    \/ \E t \in Running : GocInsert(t)
    \/ \E t \in Running : EnsureSelect(t)
    \/ \E t \in Running : EnsureInsert(t)
    \/ \E t \in Running : MessageInsert(t)
    \/ \E t \in Running : JoinHistory(t)
    \/ \E t \in Running : JoinHuddle(t)

SpecLive == Init /\ [][LiveNext]_vars

\* the private channel "secret" with messages of its creator, read through both
\* REST routes by the creator, by an outsider and without credentials
ReadNext ==
    \/ Posting < MaxPosting /\ ChatMessage("A", "secret", "t0")
    \/ \E t \in Running : MemberCheck(t)
    \/ \E t \in Running : EnsureSelect(t)
    \/ \E t \in Running : MessageInsert(t)
    \/ \E cred \in {BearerOf("A"), BearerOf("B"), Anonymous}, channelId \in {"secret", "c1"} :
          GetChannelMessages(cred, channelId)
    \/ \E cred \in {HeaderOf("A"), HeaderOf("B"), Anonymous}, channelId \in {"secret", "c1", "c2"} :
          ForChannelBegin(cred, channelId)
    \/ \E t \in Running : ForChannelCheck(t)
    \/ \E t \in Running : ForChannelRead(t)

SpecRead == ChatInit /\ [][ReadNext]_vars

-----------------------------------------------------------------------------
(* Claims about the message store, checked under SpecMsg *)

EditOrDelete == {"chat:edit", "chat:delete"}

Broadcasts == {e \in emits : e[1] = "room"}

\* C3: a chat:edit or chat:delete of message M sent by a user other than M's
\* author makes the store return null, leaves M's row unchanged and is not
\* broadcast; a row changes only through an edit or delete sent by its author
\* while the row is not deleted, and that change is broadcast.
OnlyAuthorEditsOrDeletes ==
    [][\A mid \in 1..Len(messages) :
          /\ (/\ last'.op \in EditOrDelete
              /\ last'.num = mid
              /\ last'.user # messages[mid].userId)
             => (/\ last'.status = "null"
                 /\ messages'[mid] = messages[mid]
                 /\ emits' = {})
          /\ messages'[mid] # messages[mid]
             => (/\ last'.op \in EditOrDelete
                 /\ last'.num = mid
                 /\ last'.user = messages[mid].userId
                 /\ messages[mid].deletedAt = 0
                 /\ last'.status = "ok"
                 /\ \E e \in emits' :
                       /\ e[1] = "room"
                       /\ e[2] = (IF last'.op = "chat:edit" THEN "chat:messageEdited"
                                  ELSE "chat:messageDeleted"))]_vars

\* a user other than the author has tried to edit or delete a live message
StrangerEditRefused ==
    /\ last.op \in EditOrDelete /\ last.status = "null"
    /\ last.num \in 1..Len(messages)
    /\ messages[last.num].userId # last.user
    /\ messages[last.num].deletedAt = 0

\* C4: per message the only transitions are Active to Active (an author edit,
\* which sets updatedAt) and Active to Deleted (an author delete); once deletedAt
\* is set no later edit or delete, by any user in any interleaving, changes the
\* row's text, updatedAt or deletedAt, and the row is never removed.
DeletedIsTerminal ==
    [][/\ Len(messages') >= Len(messages)
       /\ \A mid \in 1..Len(messages) :
             /\ messages[mid].deletedAt # 0 => messages'[mid] = messages[mid]
             /\ messages'[mid] # messages[mid]
                => \/ /\ last'.op = "chat:edit"
                      /\ messages'[mid].deletedAt = 0
                      /\ messages'[mid].updatedAt > messages[mid].updatedAt
                      /\ messages'[mid] = [messages[mid] EXCEPT
                                             !.text = last'.arg,
                                             !.updatedAt = messages'[mid].updatedAt]
                   \/ /\ last'.op = "chat:delete"
                      /\ messages'[mid].deletedAt # 0
                      /\ messages'[mid] = [messages[mid] EXCEPT
                                             !.deletedAt = messages'[mid].deletedAt]]_vars

\* the author has tried to edit or delete a message after deleting it
AuthorEditAfterDeleteRefused ==
    /\ last.op \in EditOrDelete /\ last.status = "null"
    /\ last.num \in 1..Len(messages)
    /\ messages[last.num].userId = last.user
    /\ messages[last.num].deletedAt # 0

-----------------------------------------------------------------------------
(* Claims about the huddle store, checked under SpecHuddle *)

\* C5: in every reachable state, under any interleaving of huddle:start and
\* huddle:end handlers, each channel key has at most one huddle row with
\* endedAt = null; neither a start that arrives while a huddle is active nor two
\* concurrent starts for one channel leave two active rows.
AtMostOneActiveHuddle == \A k \in Keys : Cardinality(ActiveRows(k)) <= 1

\* two starts for one channel both passed getActiveHuddle; the second insert was refused
ConcurrentStartRefused ==
    /\ last.op = "huddle:start" /\ last.status = Escaped
    /\ Cardinality(ActiveRows(last.key)) = 1

\* C6: while channel K has an active huddle H, a huddle:end naming K and another
\* id leaves H's row active and endHuddle returns null; a row's endedAt is set only
\* by a huddle:end that carries exactly the row's channel key and huddle id.
EndedOnlyByExactKeyAndId ==
    [][\A i \in 1..Len(huddles) :
          /\ (/\ last'.op = "huddle:end"
              /\ huddles[i].endedAt = 0
              /\ huddles[i].channelKey = last'.key
              /\ huddles[i].huddleId # last'.arg
              /\ \A j \in ActiveRows(last'.key) : huddles[j].huddleId # last'.arg)
             => (huddles'[i].endedAt = 0 /\ last'.status = "null")
          /\ (huddles[i].endedAt = 0 /\ huddles'[i].endedAt # 0)
             => (/\ last'.op = "huddle:end"
                 /\ last'.key = huddles[i].channelKey
                 /\ last'.arg = huddles[i].huddleId)]_vars

\* an end with a mismatched id has run against a channel whose huddle is still active
MismatchedEndLeftHuddleActive ==
    /\ last.op = "huddle:end" /\ last.status = "null"
    /\ \E i \in ActiveRows(last.key) : huddles[i].huddleId # last.arg


-----------------------------------------------------------------------------
(* Private channels: who gets in *)

PostOrJoin == {"chat:join", "chat:join*", "chat:message", "POST /chat"}

Joins == {"chat:join", "chat:join*"}

Insider(ch, u) == isChannelMember(ch.id, u) \/ ch.createdBy = u \/ isChannelAdmin(ch.id, u)

\* a joining or posting handler on a private channel that has just gone past the
\* point where it could reject: on to ensureChannelMember, or, in the chat:join
\* revision that calls neither check nor ensureChannelMember, on to the history
PastCheck(t) ==
    /\ t.op \in PostOrJoin
    /\ t.ch.isPrivate
    /\ t.pc = "ensure_sel" \/ (t.op = "chat:join*" /\ t.pc = "history")

PrivateKey(key) == \E c \in channels : c.key = key /\ c.isPrivate

MemberOfKey(u, key) == \E c \in channels : c.key = key /\ isChannelMember(c.id, u)

\* C1: a chat:join, chat:message or POST /chat on a private channel goes past its
\* check only for a member, the creator or an admin of the channel, and a
\* rejection leaves the member rows and the message rows as they were
OutsiderIsRejected ==
    [][ /\ \A t \in Running' \ Running : PastCheck(t) => Insider(t.ch, t.user)
        /\ (last'.op \in PostOrJoin /\ last'.status \in {"denied", "403"})
              => (members' = members /\ messages' = messages)
      ]_vars

\* C2: a chat:join on a private channel by a user who is not a member emits
\* chat:join:denied to that socket and stops: a socket enters the room of a
\* private channel, and a handler goes on to send chat:history, only with its
\* user a member
NonMemberJoinIsDenied ==
    [][ /\ \A u \in Users, key \in Keys :
              (<<u, key>> \in rooms' /\ <<u, key>> \notin rooms /\ PrivateKey(key))
                 => MemberOfKey(u, key)'
        /\ \A t \in Running' \ Running :
              (t.op \in Joins /\ t.pc = "history" /\ t.ch.isPrivate)
                 => isChannelMember(t.ch.id, t.user)'
        /\ (last'.op \in Joins /\ last'.status = "denied")
              => /\ rooms' = rooms
                 /\ emits' = EmitSelf(last'.user, "chat:join:denied", last'.key)
      ]_vars

\* C9: a step of a REST chat route that does not answer 401 belongs to a request
\* with a verified bearer token, and acts as the user of that token
RestNeedsVerifiedToken ==
    (last.op \in RestOps /\ last.cred # NoCred /\ last.status # "401")
       => (last.cred.token \in Users /\ last.user = last.cred.token)

\* C10: for a private channel, in every store state, chat:message and POST /chat
\* decide alike: each accepts exactly a member or the creator, and what one has
\* just refused the other refuses too
SamePostDecision ==
    /\ \A ch \in channels, u \in Users :
          ch.isPrivate =>
             /\ MessageAllowed(ch, u) = (isChannelMember(ch.id, u) \/ ch.createdBy = u)
             /\ PostAllowed(ch, u) = (isChannelMember(ch.id, u) \/ ch.createdBy = u)
    /\ (last.op = "chat:message" /\ last.status = "denied")
          => ~PostAllowed(getChannelByKey(last.key), last.user)

-----------------------------------------------------------------------------
(* Channels created on first use *)

\* C7: whatever the interleaving of get-or-create calls for a key, the store holds
\* at most one channel with that key and no call fails
GetOrCreateNeverFails ==
    /\ \A c1, c2 \in channels : c1.key = c2.key => c1.id = c2.id
    /\ ~(last.arg = "chat_channels.key" /\ last.status \in {"error", "500"})

-----------------------------------------------------------------------------
(* Who manages a channel's members and admins *)

MemberRoutes == ManageOps \cup {"POST /chat/:channelKey/members"}

\* C8: a REST request that adds or removes another user's member or admin row
\* reaches its store call only with the actor an admin or the creator of the
\* channel, and a 403 leaves both sets as they were
OnlyAdminOrCreatorManages ==
    [][ /\ \A t \in Running' \ Running :
              (t.op \in MemberRoutes /\ t.pc \in {"apply", "add_member"} /\ t.arg # t.user)
                 => MayManage(t.ch, t.user)
        /\ (last'.op \in MemberRoutes /\ last'.status = "403")
              => (members' = members /\ admins' = admins)
      ]_vars

-----------------------------------------------------------------------------
(* Connections *)

\* C11: a socket whose handshake carries no token, or a token that fails
\* verification, never becomes connected: it is in no personal or channel room,
\* no handler runs for it, no presence:update is broadcast for it, and its
\* refused handshake emits nothing
UnauthenticatedNeverConnected ==
    /\ \A s \in HandshakeTokens \ Users :
          /\ \A r \in rooms : r[1] # s
          /\ \A t \in Running : t.user # s
          /\ \A e \in emits : ~(e[2] = "presence:update" /\ e[3] = s)
    /\ (last.op \in {"connection", "disconnect", "chat:join", "chat:leave"}
          /\ last.status # "await") => last.user \in Users
    /\ last.op = "handshake" => emits = {}

HandshakeRefusedWhileOthersConnected ==
    /\ last.op = "handshake" /\ last.status = "Unauthorized: invalid token"
    /\ \E u \in Callers : Connected(u) /\ <<u, "general">> \in rooms

-----------------------------------------------------------------------------
(* Deleting a channel *)

DeleteRoute == "DELETE /chat/channels/:id"

\* C12: deleteChannel goes on to its DELETE only for a requester who is in the
\* channel's admin set when it is called, a channel row disappears only by such
\* a DELETE, and for any other requester the route answers 403 and leaves the
\* channel, member, admin and message rows as they were
DeleteOnlyByAdmin ==
    [][ /\ \A t \in Running' \ Running :
              (t.op = DeleteRoute /\ t.pc = "delete") => <<t.key, t.user>> \in admins
        /\ \A c \in channels : c \notin channels'
              => /\ last'.op = DeleteRoute /\ last'.status = "200" /\ last'.key = c.id
                 /\ \E t \in Running : t.op = DeleteRoute /\ t.pc = "delete" /\ t.key = c.id
        /\ (last'.op = DeleteRoute /\ last'.status # "await" /\ last'.status # "200")
              => /\ last'.status \in {"401", "403"}
                 /\ last'.status = "403" => <<last'.key, last'.user>> \notin admins
                 /\ UNCHANGED <<channels, members, admins, messages>>
      ]_vars

CreatorWithoutAdminRowRefused ==
    /\ last.op = DeleteRoute /\ last.status = "403"
    /\ \E c \in channels : c.id = last.key /\ c.createdBy = last.user
    /\ \E r \in admins : r[1] = last.key

-----------------------------------------------------------------------------
(* Seeding the creator of a channel *)

\* C13: createChannel seeds its creator atomically: the step that writes the
\* channel row leaves the creator in the channel's admin set and member set, so
\* that no request can observe the row without them
CreateChannelSeedsAtomically ==
    [][ \A c \in channels' \ channels :
           last'.op = "POST /chat/channels"
              => (<<c.id, c.createdBy>> \in admins' /\ <<c.id, c.createdBy>> \in members')
      ]_vars

\* C14: whichever path created a channel, once the creating operation has
\* returned - here: once no handler of the creator is in flight - the creator
\* is in the channel's admin set and in its member set
CreatorSeededOnceReturned ==
    \A c \in channels :
       (\A t \in Running : t.user # c.createdBy)
          => (<<c.id, c.createdBy>> \in admins /\ <<c.id, c.createdBy>> \in members)

-----------------------------------------------------------------------------
(* Posting enrols the poster *)

PostOps == {"chat:message", "POST /chat"}

\* C15, as stated: at the step that writes the message row of an accepted post,
\* the poster has a member row in the message's channel
PosterIsMemberOnceRowExists ==
    [][ (last'.op \in PostOps /\ last'.status \in {"ok", "201"})
           => <<messages'[last'.num].channelId, last'.user>> \in members'
      ]_vars

\* C15, amended: a posting handler goes on to createChatMessage only when
\* ensureChannelMember has returned with the poster's member row present; that
\* call inserts one row, the poster's, and only when the poster had none
PosterEnrolledBeforeInsert ==
    [][ /\ \A t \in Running' \ Running :
              (t.op \in PostOps /\ t.pc = "create_msg") => <<t.ch.id, t.user>> \in members'
        /\ (last'.op \in PostOps /\ last'.status = "enrolled")
              => \E c \in channels :
                    /\ <<c.id, last'.user>> \notin members
                    /\ members' = members \cup {<<c.id, last'.user>>}
        /\ (last'.op \in PostOps /\ last'.status # "enrolled") => members' = members
      ]_vars

NonMemberPosterEnrolled ==
    /\ last.op \in PostOps /\ last.status = "enrolled"
    /\ \E c \in channels : c.isPrivate /\ <<c.id, last.user>> \in members

-----------------------------------------------------------------------------
(* Joining a public channel *)

\* C16: a chat:join handler that completes on a non-private channel leaves the
\* user with a member row in the channel and in the room channel:<key>
PublicJoinEnrols ==
    [][ \A c \in channels' :
          (last'.op \in Joins /\ last'.status = "ok" /\ last'.key = c.key /\ ~c.isPrivate)
             => /\ <<c.id, last'.user>> \in members'
                /\ <<last'.user, c.key>> \in rooms'
      ]_vars

-----------------------------------------------------------------------------
(* Joining a private channel before and after being added *)

-----------------------------------------------------------------------------
(* Soft delete and the channel history *)

Limits == 1..MaxMessages

\* C18: a successful soft-delete keeps the message row, leaves its text as it
\* was and sets deletedAt; for every limit, getRecentMessages on the message's
\* channel returns the same ids in the same order before and after the delete,
\* the deleted message now with its deletedAt set; and no later step takes a
\* message out of what getRecentMessages returns for a limit
SoftDeleteStaysInHistory ==
    [][ /\ (last'.op = "chat:delete" /\ last'.status = "ok")
              => LET mid == last'.num
                     ch == messages[mid].channelId
                 IN  /\ Len(messages') = Len(messages)
                     /\ messages'[mid].text = messages[mid].text
                     /\ messages[mid].deletedAt = 0 /\ messages'[mid].deletedAt # 0
                     /\ \A limit \in Limits :
                          LET before == getRecentOf(messages, ch, limit)
                              after == getRecentOf(messages', ch, limit)
                          IN  /\ Len(after) = Len(before)
                              /\ \A k \in 1..Len(before) :
                                    /\ after[k].id = before[k].id
                                    /\ after[k].text = before[k].text
                                    /\ before[k].id = mid => after[k].deletedAt # 0
        /\ messages' = messages \/ \A c \in channels, limit \in Limits :
              FirstIds(messages, RowsOf(messages, c.id), limit)
                 \subseteq FirstIds(messages', RowsOf(messages', c.id), limit)
      ]_vars

DeletedMessageReturned ==
    /\ last.op = "chat:delete" /\ last.status = "ok"
    /\ Len(messages) = MaxMessages
    /\ LET rows == getRecentMessages(messages[last.num].channelId, MaxMessages)
       IN  \E k \in 1..Len(rows) :
              rows[k].id = last.num /\ rows[k].deletedAt # 0

-----------------------------------------------------------------------------
(* The channel list of a user *)

ListedIds(user) ==
    LET list == getChannelsForUser(user) IN {list[k].id : k \in 1..Len(list)}

VisibleIds(user) ==
    {c.id : c \in {d \in channels : ~d.isPrivate \/ <<d.id, user>> \in members}}

\* C19: for every user and every store, getChannelsForUser returns the
\* non-private channels and the private channels in which the user has a member
\* row, and nothing else, each id once and with the row of the store; GET
\* /chat/channels answers with that list
ListIsPublicPlusMemberships ==
    /\ \A u \in Users :
          LET list == getChannelsForUser(u)
          IN  /\ ListedIds(u) = VisibleIds(u)
              /\ Len(list) = Cardinality(VisibleIds(u))
              /\ \A k \in 1..Len(list) : list[k] \in channels
    /\ (last.op = "GET /chat/channels" /\ last.status = "200")
          => last.num = Cardinality(VisibleIds(last.user))

CreatorWithoutMemberRowNotListed ==
    /\ last.op = "GET /chat/channels" /\ last.status = "200"
    /\ \E c \in channels :
          /\ c.isPrivate /\ c.createdBy = last.user /\ <<c.id, last.user>> \in admins
          /\ <<c.id, last.user>> \notin members
          /\ c.id \notin ListedIds(last.user)
    /\ \E c \in channels :
          ~c.isPrivate /\ <<c.id, last.user>> \in members /\ c.id \in ListedIds(last.user)

-----------------------------------------------------------------------------
(* The chat:message broadcast *)

\* what one step of a chat:message handler does about rows and broadcasts, given
\* how the payload's tempId follows from the event's
BroadcastStep(Echo(_)) ==
    last'.op = "chat:message" =>
       IF messages' # messages \/ \E e \in emits' : e[2] = "chat:message"
       THEN \E t \in Running :
               /\ t.op = "chat:message" /\ t.pc = "create_msg"
               /\ tasks' = tasks (-) SetToBag({t})
               /\ last'.status = "ok"
               /\ Len(messages') = Len(messages) + 1
               /\ messages' = Append(messages, messages'[Len(messages')])
               /\ last'.num = Len(messages')
               /\ messages'[last'.num].userId = t.user
               /\ messages'[last'.num].channelId = t.ch.id
               /\ messages'[last'.num].text = t.arg
               /\ last'.tempId = Echo(t.num)
               /\ emits' = {<<"room", "chat:message", t.key>>}
                           \cup {<<u, "chat:message", t.key>> : u \in InRoom(t.key)}
               /\ rooms' = rooms
       ELSE last'.status # "ok"

\* C20, as stated: a chat:message broadcast comes in the step that has persisted
\* the row, carries the row's id and the tempId of the event (null when the event
\* had none), and is delivered to every socket in the room at that moment, the
\* sender's included; an accepted event yields one row and one broadcast
BroadcastEchoesTempId == [][BroadcastStep(EchoAsSent)]_vars

\* C20, amended: the same, with the payload's tempId being the event's tempId
\* when that is truthy and null otherwise
BroadcastEchoesTruthyTempId == [][BroadcastStep(OrNull)]_vars

SenderInRoomGotBroadcast ==
    /\ last.op = "chat:message" /\ last.status = "ok"
    /\ last.tempId = TempIdOfClient
    /\ last.num = Len(messages) /\ Len(messages) = MaxMessages
    /\ <<last.user, "chat:message", last.key>> \in emits
    /\ \E u \in Users \ {last.user} : <<u, "chat:message", last.key>> \in emits

-----------------------------------------------------------------------------
(* Huddle signalling *)

\* C21: a relayed huddle:signal reaches only sockets whose user is the
\* targetUserId of the event, and a socket is in no personal room but its own
SignalOnlyToTarget ==
    [][ /\ last'.op = "huddle:signal"
              => \A e \in emits' : e[1] # "room" => e[1] = last'.arg
        /\ \A r \in rooms' : r[2] \in Users => r[2] = r[1]
      ]_vars

-----------------------------------------------------------------------------
(* Store failures inside socket handlers *)

FailureCauses == {StoreDown, "chat_channels.key", "chat_channel_members", "channel_id"}

SocketHandlers == SocketOps \cup {"chat:edit", "chat:delete", "huddle:start", "huddle:end"}

\* C22: a step of a socket handler in which a store call failed ends in the
\* handler's own catch and emits nothing
StoreFailureIsCaught ==
    [][ (last'.op \in SocketHandlers /\ (last'.arg \in FailureCauses \/ last'.status = Escaped))
           => /\ last'.status = "error"
              /\ emits' = {}
      ]_vars

-----------------------------------------------------------------------------
(* Order of the events of one socket *)

\* C23: the effects of a socket's events come in the order of the events: a
\* chat:edit or chat:delete does not take effect while a chat:message handler of
\* the same socket, started before it, has still to write its row
EffectsInEventOrder ==
    [][ (last'.op \in {"chat:edit", "chat:delete"} /\ last'.status = "ok")
           => \A t \in Running : t.op = "chat:message" => t.user # last'.user
      ]_vars

-----------------------------------------------------------------------------
(* The history snapshot *)

\* the rows with fewer than limit rows after them
LatestIds(msgs, ids, limit) ==
    {i \in ids : Cardinality({j \in ids : Before(msgs, i, j)}) < limit}

\* C24: the chat:history of a join holds the min(n, limit) messages of the
\* channel with the latest creation times, in ascending creation order
HistoryIsLatest ==
    [][ (last'.op \in Joins /\ last'.status = "history")
           => \E c \in channels :
                 /\ c.key = last'.key
                 /\ {last'.history[k].id : k \in 1..Len(last'.history)}
                       = LatestIds(messages, RowsOf(messages, c.id), HistoryLimit)
                 /\ Len(last'.history)
                       = Cardinality(LatestIds(messages, RowsOf(messages, c.id), HistoryLimit))
                 /\ \A k \in 1..(Len(last'.history) - 1) :
                       last'.history[k].createdAt < last'.history[k + 1].createdAt
      ]_vars

-----------------------------------------------------------------------------
(* Concurrent enrolment *)

\* C25: whatever the interleaving of ensureChannelMember and addChannelMember
\* calls for a (channel, user) pair, no call fails on the pair
EnsureMemberNeverFails ==
    ~(last.arg = "chat_channel_members" /\ last.status \in {"error", "500"})

-----------------------------------------------------------------------------
(* Huddles of a private channel *)

\* C26: a huddle row of a private channel's key is created or ended only by a
\* member or the creator of that channel
HuddleOnlyByInsider ==
    [][ (huddles' # huddles /\ last'.op \in {"huddle:start", "huddle:end"})
           => \A c \in channels :
                 (c.key = last'.key /\ c.isPrivate)
                    => (isChannelMember(c.id, last'.user) \/ c.createdBy = last'.user)
      ]_vars

-----------------------------------------------------------------------------
(* Rooms of a private channel after a removal *)

MessageEvents == {"chat:message", "chat:messageEdited", "chat:messageDeleted"}

\* C27: every socket in the room of a private channel belongs to a user with a
\* member row in the channel, and no message broadcast of a private channel is
\* delivered to a user without one
RoomHoldsOnlyMembers ==
    /\ \A r \in rooms : PrivateKey(r[2]) => MemberOfKey(r[1], r[2])
    /\ \A e \in emits :
          (e[1] \in Users /\ e[2] \in MessageEvents /\ PrivateKey(e[3]))
             => MemberOfKey(e[1], e[3])

-----------------------------------------------------------------------------
(* The room of an edit or delete broadcast *)

\* C28: a chat:edit or chat:delete changes a message, and broadcasts, only when
\* its channelId names the channel that owns the message
EditStaysInOwningChannel ==
    [][ (last'.op \in {"chat:edit", "chat:delete"} /\ (messages' # messages \/ emits' # {}))
           => \E c \in channels :
                 c.id = messages[last'.num].channelId /\ c.key = last'.key
      ]_vars

-----------------------------------------------------------------------------
(* Snapshot and live delivery *)

\* C29: a joining socket is in the room from before its history is read and
\* stays there; the history read returns every message the channel holds at that
\* moment (the channel holding no more than the limit); and a chat:message row
\* is broadcast, in the step that persists it, to every socket in the room at
\* that moment. A message persisted before the read is therefore in the
\* snapshot, and one persisted after it is broadcast to the socket
NoMessageBetweenSnapshotAndLive ==
    [][ /\ \A t \in Running' :
              (t.op \in Joins /\ t.pc \in {"history", "huddle"}) => <<t.user, t.key>> \in rooms'
        /\ rooms \subseteq rooms'
        /\ (last'.op \in Joins /\ last'.status = "history")
              => /\ <<last'.user, last'.key>> \in rooms
                 /\ \E c \in channels :
                       /\ c.key = last'.key
                       /\ Cardinality(RowsOf(messages, c.id)) <= HistoryLimit
                             => {last'.history[k].id : k \in 1..Len(last'.history)}
                                   = RowsOf(messages, c.id)
        /\ (last'.op = "chat:message" /\ messages' # messages)
              => /\ Len(messages') = Len(messages) + 1
                 /\ last'.num = Len(messages')
                 /\ \A u \in InRoom(last'.key) : <<u, "chat:message", last'.key>> \in emits'
      ]_vars

BroadcastDuringJoin ==
    /\ last.op = "chat:message" /\ last.status = "ok"
    /\ \E t \in Running :
          /\ t.op \in Joins /\ t.pc = "history" /\ t.user = "B"
          /\ <<t.user, "chat:message", t.key>> \in emits

-----------------------------------------------------------------------------
(* Reading a private channel over REST *)

ReadRoutes == {ForChannelRoute, MessagesRoute}

\* C30: a REST read of a private channel, addressed by key or by id, answers
\* with messages only for a member or the creator of the channel
PrivateMessagesOnlyToInsiders ==
    [][ (last'.op \in ReadRoutes /\ last'.status = "200")
           => \A k \in 1..Len(last'.history) :
                 \A c \in channels :
                    (c.id = messages[last'.history[k].id].channelId /\ c.isPrivate)
                       => (isChannelMember(c.id, last'.user) \/ c.createdBy = last'.user)
      ]_vars

====
